---- MODULE Spec2Model ----
(***************************************************************************)
(* tutorials/tutorial04_rllab.ipynb as a state machine.                    *)
(*                                                                         *)
(* The notebook is executed top to bottom.  Each statement of a code cell  *)
(* is one step; `pc` names the statement that runs next.  `globals` is the *)
(* kernel's global namespace, `locals` is the frame of the running         *)
(* run_task call.  Calls into flow / rllab are opaque: a call either       *)
(* returns an object holding the arguments it was given, or raises.        *)
(***************************************************************************)
EXTENDS Integers, Sequences, FiniteSets, TLC

VARIABLES pc, globals, constructed, seeds, idx, launches, returned,
          locals, itr, taskTrace, taskRuns, trainCalls, iterations,
          failures, exc

vars == <<pc, globals, constructed, seeds, idx, launches, returned,
          locals, itr, taskTrace, taskRuns, trainCalls, iterations,
          failures, exc>>

(***************************************************************************)
(* Bounds and inputs.                                                      *)
(***************************************************************************)
\* longest seed list the launch loop is run with
MaxSeeds == 3

\* the seeds named on the loop line: "for seed in [5]:  # , 20, 68]:"
SeedValues == {5, 20, 68}

\* the lists the loop may iterate over; <<5>> is the notebook's own list
SeedLists == UNION {[1..n -> SeedValues] : n \in 0..MaxSeeds}

\* the names the notebook binds at top level
GlobalNames == {"name", "net_params", "initial_config", "traffic_lights",
                "vehicles", "scenario", "sumo_params", "env_params",
                "env_name", "pass_params", "run_task"}

\* the statements of run_task, in textual order
TaskOrder == <<"GymEnv", "horizon", "normalize", "policy", "baseline",
               "TRPO", "train">>

\* what a library call may raise
EnvErrors == {"EnvNotFound", "InvalidParams"}
LibErrors == {"LibraryError"}
TrainErrors == {"SimulatorCrash"}
LaunchErrors == {"LaunchError"}

(***************************************************************************)
(* Values of names that are not bound yet (same shape as the bound value). *)
(***************************************************************************)
NoNetParams == [additional_params |-> "unbound"]
NoInitialConfig == [spacing |-> "unbound", perturbation |-> 0]
NoScenario == [name |-> "unbound", vehicles |-> <<>>,
               net_params |-> NoNetParams,
               initial_config |-> NoInitialConfig,
               traffic_lights |-> "unbound"]
NoSumoParams == [sim_step |-> "unbound", render |-> FALSE]
NoEnvParams == [horizon |-> 0,
                additional_params |-> [max_accel |-> 0, max_decel |-> 0,
                                       ring_length |-> <<>>]]

NoGlobals == [name |-> "unbound",
              net_params |-> NoNetParams,
              initial_config |-> NoInitialConfig,
              traffic_lights |-> "unbound",
              vehicles |-> <<>>,
              scenario |-> NoScenario,
              sumo_params |-> NoSumoParams,
              env_params |-> NoEnvParams,
              env_name |-> "unbound",
              pass_params |-> <<>>]

NoSpec == [env |-> "unbound", normalized |-> FALSE]
NoEnv == [name |-> "unbound", register_params |-> <<>>, horizon |-> 0,
          wrapped |-> FALSE]
NoPolicy == [env_spec |-> NoSpec, hidden_sizes |-> <<>>]
NoBaseline == [env_spec |-> NoSpec]
NoAlgo == [env |-> NoEnv, policy |-> NoPolicy, baseline |-> NoBaseline,
           batch_size |-> 0, max_path_length |-> 0, discount |-> "unbound",
           n_itr |-> 0]

\* the frame of a run_task call before its first statement
NoLocals == [env |-> NoEnv, horizon |-> 0, policy |-> NoPolicy,
             baseline |-> NoBaseline, algo |-> NoAlgo]

(***************************************************************************)
(* Library operations.                                                     *)
(***************************************************************************)
\* VehicleParams.add: one more entry at the end of the registry
VehicleParams_add(reg, veh_id, acceleration_controller, routing_controller, num_vehicles) ==
    Append(reg, [veh_id |-> veh_id,
                 acceleration_controller |-> acceleration_controller,
                 routing_controller |-> routing_controller,
                 num_vehicles |-> num_vehicles])

\* env.spec: what policy and baseline are built on
EnvSpec(e) == [env |-> e.name, normalized |-> e.wrapped]

RECURSIVE SumVehicles(_)
\* total of num_vehicles over the entries of a registry
SumVehicles(reg) ==
    IF reg = <<>> THEN 0
    ELSE reg[1].num_vehicles + SumVehicles(Tail(reg))

RECURSIVE CountWith(_, _)
\* vehicles of a registry whose acceleration controller is c
CountWith(reg, c) ==
    IF reg = <<>> THEN 0
    ELSE (IF reg[1].acceleration_controller = c
          THEN reg[1].num_vehicles ELSE 0) + CountWith(Tail(reg), c)

(***************************************************************************)
(* Initial state: a fresh kernel, nothing bound, nothing launched.         *)
(***************************************************************************)
Init ==
    /\ pc = "name"
    /\ globals = NoGlobals
    /\ constructed = [n \in GlobalNames |-> 0]
    /\ seeds = <<>>
    /\ idx = 0
    /\ launches = <<>>
    /\ returned = 0
    /\ locals = NoLocals
    /\ itr = 0
    /\ taskTrace = <<>>
    /\ taskRuns = 0
    /\ trainCalls = 0
    /\ iterations = 0
    /\ failures = 0
    /\ exc = "none"

loopVars == <<seeds, idx, launches, returned>>
taskVars == <<locals, itr, taskTrace, taskRuns, trainCalls, iterations,
              failures, exc>>

\* a top-level assignment  n = v  followed by the statement at `next`
Bind(n, v, next) ==
    /\ globals' = [globals EXCEPT ![n] = v]
    /\ constructed' = [constructed EXCEPT ![n] = @ + 1]
    /\ pc' = next
    /\ UNCHANGED <<loopVars, taskVars>>

(***************************************************************************)
(* Section 2.1: scenario parameters.                                       *)
(***************************************************************************)
AssignName ==
    /\ pc = "name"
    /\ Bind("name", "training_example", "net_params")

BuildNetParams ==
    /\ pc = "net_params"
    /\ Bind("net_params", [additional_params |-> "ADDITIONAL_NET_PARAMS"],
            "initial_config")

BuildInitialConfig ==
    /\ pc = "initial_config"
    /\ Bind("initial_config", [spacing |-> "uniform", perturbation |-> 1],
            "traffic_lights")

BuildTrafficLights ==
    /\ pc = "traffic_lights"
    /\ Bind("traffic_lights", "TrafficLightParams()", "vehicles")

(***************************************************************************)
(* Section 2.2: the vehicle registry.                                      *)
(***************************************************************************)
BuildVehicles ==
    /\ pc = "vehicles"
    /\ Bind("vehicles", <<>>, "add_human")

AddHuman_20 ==
    /\ pc = "add_human"
    /\ globals' = [globals EXCEPT !.vehicles =
           VehicleParams_add(@, "human", "IDMController",
                             "ContinuousRouter", 20)]
    /\ pc' = "add_rl"
    /\ UNCHANGED <<constructed, loopVars, taskVars>>

AddHuman ==
    /\ pc = "add_human"
    /\ globals' = [globals EXCEPT !.vehicles =
           VehicleParams_add(@, "human", "IDMController",
                             "ContinuousRouter", 21)]
    /\ pc' = "add_rl"
    /\ UNCHANGED <<constructed, loopVars, taskVars>>

AddRL_IDM ==
    /\ pc = "add_rl"
    /\ globals' = [globals EXCEPT !.vehicles =
           VehicleParams_add(@, "rl", "IDMController",
                             "ContinuousRouter", 1)]
    /\ pc' = "scenario"
    /\ UNCHANGED <<constructed, loopVars, taskVars>>

AddRL ==
    /\ pc = "add_rl"
    /\ globals' = [globals EXCEPT !.vehicles =
           VehicleParams_add(@, "rl", "RLController",
                             "ContinuousRouter", 1)]
    /\ pc' = "scenario"
    /\ UNCHANGED <<constructed, loopVars, taskVars>>

(***************************************************************************)
(* Section 2.3: the scenario.  The name is the literal of the call.        *)
(***************************************************************************)
BuildScenario ==
    /\ pc = "scenario"
    /\ Bind("scenario",
            [name |-> "ring_example",
             vehicles |-> globals.vehicles,
             net_params |-> globals.net_params,
             initial_config |-> globals.initial_config,
             traffic_lights |-> globals.traffic_lights],
            "sumo_params")

(***************************************************************************)
(* Section 3: simulation and environment parameters, register_params.      *)
(***************************************************************************)
BuildSumoParams ==
    /\ pc = "sumo_params"
    /\ Bind("sumo_params", [sim_step |-> "0.1", render |-> FALSE],
            "env_params")

BuildEnvParams ==
    /\ pc = "env_params"
    /\ Bind("env_params",
            [horizon |-> 100,
             additional_params |-> [max_accel |-> 1, max_decel |-> 1,
                                    ring_length |-> <<220, 270>>]],
            "env_name")

AssignEnvName ==
    /\ pc = "env_name"
    /\ Bind("env_name", "WaveAttenuationPOEnv", "pass_params")

BuildPassParams ==
    /\ pc = "pass_params"
    /\ Bind("pass_params",
            <<globals.env_name, globals.sumo_params, globals.vehicles,
              globals.env_params, globals.net_params,
              globals.initial_config, globals.scenario>>,
            "def_run_task")

\* "def run_task(*_):" binds the function; its body runs only when called
DefRunTask ==
    /\ pc = "def_run_task"
    /\ constructed' = [constructed EXCEPT !["run_task"] = @ + 1]
    /\ pc' = "for"
    /\ UNCHANGED <<globals, loopVars, taskVars>>

(***************************************************************************)
(* Section 4.2: the launch loop                                            *)
(*     for seed in [5]:  run_experiment_lite(run_task, ..., seed=seed)     *)
(***************************************************************************)
\* the list of the for statement is evaluated once, before the first pass
ForStart ==
    /\ pc = "for"
    /\ \E s \in SeedLists : seeds' = s
    /\ idx' = 1
    /\ pc' = "loop_head"
    /\ UNCHANGED <<globals, constructed, launches, returned, taskVars>>

\* next element: seed is bound and run_experiment_lite is called with it
Launch ==
    /\ pc = "loop_head"
    /\ idx <= Len(seeds)
    /\ launches' = Append(launches, seeds[idx])
    /\ pc' = "launcher"
    /\ UNCHANGED <<globals, constructed, seeds, idx, returned, taskVars>>

\* list exhausted: the cell, and with it the notebook, is finished
ForExit ==
    /\ pc = "loop_head"
    /\ idx > Len(seeds)
    /\ pc' = "done"
    /\ UNCHANGED <<globals, constructed, loopVars, taskVars>>

\* the launcher calls run_task: a new frame
LauncherCallsTask ==
    /\ pc = "launcher"
    /\ taskRuns' = taskRuns + 1
    /\ locals' = NoLocals
    /\ itr' = 0
    /\ taskTrace' = <<>>
    /\ pc' = "GymEnv"
    /\ UNCHANGED <<globals, constructed, loopVars, trainCalls, iterations,
                   failures, exc>>

\* the launcher itself fails; the loop has no handler, the cell aborts
LauncherFails ==
    /\ pc = "launcher"
    /\ \E k \in LaunchErrors : exc' = k
    /\ failures' = failures + 1
    /\ taskTrace' = <<>>
    /\ pc' = "error"
    /\ UNCHANGED <<globals, constructed, loopVars, locals, itr, taskRuns,
                   trainCalls, iterations>>

\* the loop moves on by two elements
LauncherReturns_skip ==
    /\ pc = "launcher_return"
    /\ returned' = returned + 1
    /\ idx' = idx + 2
    /\ pc' = "loop_head"
    /\ UNCHANGED <<globals, constructed, seeds, launches, taskVars>>

\* run_task returned to the launcher, which returns to the loop
LauncherReturns ==
    /\ pc = "launcher_return"
    /\ returned' = returned + 1
    /\ idx' = idx + 1
    /\ pc' = "loop_head"
    /\ UNCHANGED <<globals, constructed, seeds, launches, taskVars>>

\* run_task raised into the launcher and the launcher lets it through:
\* nothing in the loop catches it
LauncherPropagates ==
    /\ pc = "task_raised"
    /\ pc' = "error"
    /\ UNCHANGED <<globals, constructed, loopVars, taskVars>>

\* run_task raised into the launcher and the launcher reports the failed
\* task itself and returns normally (what the opaque launcher does with a
\* failed task is its own business)
LauncherAbsorbs ==
    /\ pc = "task_raised"
    /\ exc' = "none"
    /\ returned' = returned + 1
    /\ idx' = idx + 1
    /\ pc' = "loop_head"
    /\ UNCHANGED <<globals, constructed, seeds, launches, locals, itr,
                   taskTrace, taskRuns, trainCalls, iterations, failures>>

(***************************************************************************)
(* Section 4.1: run_task.  No statement is inside a try block.             *)
(***************************************************************************)
\* statement `step` finished normally; `next` runs next
Ran(step, next) ==
    /\ taskTrace' = Append(taskTrace, [step |-> step, exc |-> "none"])
    /\ pc' = next
    /\ UNCHANGED <<failures, exc>>

\* the library call of statement `step` raised k: run_task is left at once
Raise(step, k) ==
    /\ taskTrace' = Append(taskTrace, [step |-> step, exc |-> k])
    /\ exc' = k
    /\ failures' = failures + 1
    /\ pc' = "task_raised"

\* the failure is caught and run_task carries on with the next statement
GymEnv_caught ==
    /\ pc = "GymEnv"
    /\ \/ /\ \E h \in {globals.env_params.horizon,
                       globals.env_params.horizon + 1} :
                locals' = [locals EXCEPT !.env =
                    [name |-> globals.env_name,
                     register_params |-> globals.pass_params,
                     horizon |-> h,
                     wrapped |-> FALSE]]
          /\ Ran("GymEnv", "horizon")
       \/ /\ \E k \in EnvErrors :
                taskTrace' = Append(taskTrace, [step |-> "GymEnv", exc |-> k])
          /\ failures' = failures + 1
          /\ pc' = "horizon"
          /\ UNCHANGED <<locals, exc>>
    /\ UNCHANGED <<globals, constructed, loopVars, itr, taskRuns,
                   trainCalls, iterations>>

\* env = GymEnv(env_name, record_video=False, register_params=pass_params)
\* The horizon the new environment reports is the library's choice: the
\* configured one or some other.
GymEnv ==
    /\ pc = "GymEnv"
    /\ \/ /\ \E h \in {globals.env_params.horizon,
                       globals.env_params.horizon + 1} :
                locals' = [locals EXCEPT !.env =
                    [name |-> globals.env_name,
                     register_params |-> globals.pass_params,
                     horizon |-> h,
                     wrapped |-> FALSE]]
          /\ Ran("GymEnv", "horizon")
       \/ /\ \E k \in EnvErrors : Raise("GymEnv", k)
          /\ UNCHANGED locals
    /\ UNCHANGED <<globals, constructed, loopVars, itr, taskRuns,
                   trainCalls, iterations>>

\* normalize is skipped: the policy is built on the raw environment
ReadHorizon_skip ==
    /\ pc = "horizon"
    /\ locals' = [locals EXCEPT !.horizon = locals.env.horizon]
    /\ Ran("horizon", "policy")
    /\ UNCHANGED <<globals, constructed, loopVars, itr, taskRuns,
                   trainCalls, iterations>>

\* the horizon is taken from env_params instead of from the environment
ReadHorizon_cfg ==
    /\ pc = "horizon"
    /\ locals' = [locals EXCEPT !.horizon = globals.env_params.horizon]
    /\ Ran("horizon", "normalize")
    /\ UNCHANGED <<globals, constructed, loopVars, itr, taskRuns,
                   trainCalls, iterations>>

\* horizon = env.horizon
ReadHorizon ==
    /\ pc = "horizon"
    /\ locals' = [locals EXCEPT !.horizon = locals.env.horizon]
    /\ Ran("horizon", "normalize")
    /\ UNCHANGED <<globals, constructed, loopVars, itr, taskRuns,
                   trainCalls, iterations>>

\* the wrapper writes the normalised horizon back into env_params
Normalize_writes ==
    /\ pc = "normalize"
    /\ \/ /\ locals' = [locals EXCEPT !.env.wrapped = TRUE]
          /\ globals' = [globals EXCEPT !.env_params.horizon = 1]
          /\ Ran("normalize", "policy")
       \/ /\ \E k \in LibErrors : Raise("normalize", k)
          /\ UNCHANGED <<locals, globals>>
    /\ UNCHANGED <<constructed, loopVars, itr, taskRuns,
                   trainCalls, iterations>>

\* env = normalize(env)
Normalize ==
    /\ pc = "normalize"
    /\ \/ /\ locals' = [locals EXCEPT !.env.wrapped = TRUE]
          /\ Ran("normalize", "policy")
       \/ /\ \E k \in LibErrors : Raise("normalize", k)
          /\ UNCHANGED locals
    /\ UNCHANGED <<globals, constructed, loopVars, itr, taskRuns,
                   trainCalls, iterations>>

\* policy = GaussianMLPPolicy(env_spec=env.spec, hidden_sizes=(32, 32))
BuildPolicy ==
    /\ pc = "policy"
    /\ \/ /\ locals' = [locals EXCEPT !.policy =
                [env_spec |-> EnvSpec(locals.env),
                 hidden_sizes |-> <<32, 32>>]]
          /\ Ran("policy", "baseline")
       \/ /\ \E k \in LibErrors : Raise("policy", k)
          /\ UNCHANGED locals
    /\ UNCHANGED <<globals, constructed, loopVars, itr, taskRuns,
                   trainCalls, iterations>>

\* baseline = LinearFeatureBaseline(env_spec=env.spec)
BuildBaseline ==
    /\ pc = "baseline"
    /\ \/ /\ locals' = [locals EXCEPT !.baseline =
                [env_spec |-> EnvSpec(locals.env)]]
          /\ Ran("baseline", "TRPO")
       \/ /\ \E k \in LibErrors : Raise("baseline", k)
          /\ UNCHANGED locals
    /\ UNCHANGED <<globals, constructed, loopVars, itr, taskRuns,
                   trainCalls, iterations>>

\* two training iterations are asked for
BuildTRPO_2 ==
    /\ pc = "TRPO"
    /\ \/ /\ locals' = [locals EXCEPT !.algo =
                [env |-> locals.env,
                 policy |-> locals.policy,
                 baseline |-> locals.baseline,
                 batch_size |-> 1000,
                 max_path_length |-> locals.horizon,
                 discount |-> "0.999",
                 n_itr |-> 2]]
          /\ Ran("TRPO", "train")
       \/ /\ \E k \in LibErrors : Raise("TRPO", k)
          /\ UNCHANGED locals
    /\ UNCHANGED <<globals, constructed, loopVars, itr, taskRuns,
                   trainCalls, iterations>>

\* algo = TRPO(env=env, policy=policy, baseline=baseline, batch_size=1000,
\*             max_path_length=horizon, discount=0.999, n_itr=1)
BuildTRPO ==
    /\ pc = "TRPO"
    /\ \/ /\ locals' = [locals EXCEPT !.algo =
                [env |-> locals.env,
                 policy |-> locals.policy,
                 baseline |-> locals.baseline,
                 batch_size |-> 1000,
                 max_path_length |-> locals.horizon,
                 discount |-> "0.999",
                 n_itr |-> 1]]
          /\ Ran("TRPO", "train")
       \/ /\ \E k \in LibErrors : Raise("TRPO", k)
          /\ UNCHANGED locals
    /\ UNCHANGED <<globals, constructed, loopVars, itr, taskRuns,
                   trainCalls, iterations>>

\* algo.train() is entered
CallTrain ==
    /\ pc = "train"
    /\ trainCalls' = trainCalls + 1
    /\ itr' = 0
    /\ pc' = "training"
    /\ UNCHANGED <<globals, constructed, loopVars, locals, taskTrace,
                   taskRuns, iterations, failures, exc>>

\* one policy-optimization iteration of train, or a crash during it
TrainIter ==
    /\ pc = "training"
    /\ itr < locals.algo.n_itr
    /\ \/ /\ itr' = itr + 1
          /\ iterations' = iterations + 1
          /\ UNCHANGED <<pc, taskTrace, failures, exc>>
       \/ /\ \E k \in TrainErrors : Raise("train", k)
          /\ UNCHANGED <<itr, iterations>>
    /\ UNCHANGED <<globals, constructed, loopVars, locals, taskRuns,
                   trainCalls>>

\* train has done its n_itr iterations and returns; it is the last
\* statement of run_task, so run_task returns to the launcher
TrainReturns ==
    /\ pc = "training"
    /\ itr >= locals.algo.n_itr
    /\ Ran("train", "launcher_return")
    /\ UNCHANGED <<globals, constructed, loopVars, locals, itr, taskRuns,
                   trainCalls, iterations>>

(***************************************************************************)
(* The notebook.                                                           *)
(***************************************************************************)
Next ==
    \/ AssignName
    \/ BuildNetParams
    \/ BuildInitialConfig
    \/ BuildTrafficLights
    \/ BuildVehicles
    \/ AddHuman
    \/ AddRL
    \/ BuildScenario
    \/ BuildSumoParams
    \/ BuildEnvParams
    \/ AssignEnvName
    \/ BuildPassParams
    \/ DefRunTask
    \/ ForStart
    \/ Launch
    \/ ForExit
    \/ LauncherCallsTask
    \/ LauncherFails
    \/ LauncherReturns
    \/ LauncherPropagates
    \/ LauncherAbsorbs
    \/ GymEnv
    \/ ReadHorizon
    \/ Normalize
    \/ BuildPolicy
    \/ BuildBaseline
    \/ BuildTRPO
    \/ CallTrain
    \/ TrainIter
    \/ TrainReturns

Spec == Init /\ [][Next]_vars

\* the kernel runs the cells one after the other and every library call
\* comes back (by returning or by raising)
LiveSpec == Spec /\ WF_vars(Next)

(***************************************************************************)
(* Vocabulary of the properties.                                           *)
(***************************************************************************)
\* both vehicles.add calls have run
AddsDone == pc \notin {"name", "net_params", "initial_config",
                       "traffic_lights", "vehicles", "add_human", "add_rl"}

\* every top-level statement up to pass_params has run
SetupDone == AddsDone /\ pc \notin {"scenario", "sumo_params", "env_params",
                                    "env_name", "pass_params"}

\* the configuration objects of the notebook
ConfigNames == {"net_params", "initial_config", "traffic_lights",
                "sumo_params", "env_params", "env_name", "pass_params"}

RECURSIVE SumOf(_, _)
\* vehicles of the entries of a registry called id
SumOf(reg, id) ==
    IF reg = <<>> THEN 0
    ELSE (IF reg[1].veh_id = id THEN reg[1].num_vehicles ELSE 0)
         + SumOf(Tail(reg), id)

\* the statements of the current run_task call that have finished, in order
Steps == [i \in 1..Len(taskTrace) |-> taskTrace[i].step]

\* statement `step` of the current run_task call has returned normally
Done(step) ==
    \E i \in 1..Len(taskTrace) :
        taskTrace[i].step = step /\ taskTrace[i].exc = "none"

\* where statement `step` stands in the trace of the current call
Pos(step) == CHOOSE i \in 1..Len(taskTrace) : taskTrace[i].step = step

(***************************************************************************)
(* C1: once both add calls have run the registry accounts for exactly 22   *)
(* vehicles, 21 in the "human" entry and 1 in the "rl" entry, and that is  *)
(* the registry the scenario and pass_params are built with.               *)
(***************************************************************************)
C1_TotalVehicles ==
    AddsDone =>
        /\ SumVehicles(globals.vehicles) = 22
        /\ SumOf(globals.vehicles, "human") = 21
        /\ SumOf(globals.vehicles, "rl") = 1
        /\ constructed["scenario"] > 0 =>
               SumVehicles(globals.scenario.vehicles) = 22
        /\ constructed["pass_params"] > 0 =>
               SumVehicles(globals.pass_params[3]) = 22

C1_Witness ==
    /\ constructed["scenario"] = 1
    /\ constructed["pass_params"] = 1
    /\ SumVehicles(globals.pass_params[3]) = 22

(***************************************************************************)
(* C2: the registry holds exactly two entries, "human" then "rl"; exactly  *)
(* one vehicle is driven by RLController, all others by IDMController, and *)
(* every entry is routed by ContinuousRouter.                              *)
(***************************************************************************)
C2_RegistryEntries ==
    AddsDone =>
        /\ Len(globals.vehicles) = 2
        /\ globals.vehicles[1].veh_id = "human"
        /\ globals.vehicles[2].veh_id = "rl"
        /\ CountWith(globals.vehicles, "RLController") = 1
        /\ CountWith(globals.vehicles, "IDMController")
               = SumVehicles(globals.vehicles) - 1
        /\ \A i \in 1..Len(globals.vehicles) :
               globals.vehicles[i].routing_controller = "ContinuousRouter"

C2_Witness ==
    /\ pc = "scenario"
    /\ Len(globals.vehicles) = 2
    /\ CountWith(globals.vehicles, "RLController") = 1

(***************************************************************************)
(* C3: the simulation parameters are built with a step of 0.1 s and with   *)
(* the GUI activated (render true), and that is the flag carried in        *)
(* pass_params into the environment constructor.                           *)
(***************************************************************************)
C3_RenderActivated ==
    /\ constructed["sumo_params"] > 0 =>
           /\ globals.sumo_params.sim_step = "0.1"
           /\ globals.sumo_params.render = TRUE
    /\ constructed["pass_params"] > 0 =>
           globals.pass_params[2].render = TRUE
    /\ Done("GymEnv") =>
           locals.env.register_params[2].render = TRUE

(***************************************************************************)
(* C4: the scenario is constructed with the name held in the variable      *)
(* `name`.                                                                 *)
(***************************************************************************)
C4_ScenarioNamed ==
    constructed["scenario"] > 0 => globals.scenario.name = globals.name

(***************************************************************************)
(* C5: run_experiment_lite is invoked once per element of the seed list,   *)
(* in list order, with that element as seed, and a launch starts only      *)
(* after the previous one has returned; the list [5] gives exactly one     *)
(* launch, with seed 5.                                                    *)
(***************************************************************************)
C5_OneLaunchPerSeed ==
    /\ Len(launches) <= Len(seeds)
    /\ launches = SubSeq(seeds, 1, Len(launches))
    /\ Len(launches) <= returned + 1
    /\ pc = "loop_head" => Len(launches) = returned
    /\ pc = "done" => launches = seeds /\ returned = Len(seeds)
    /\ (pc = "done" /\ seeds = <<5>>) => launches = <<5>> /\ taskRuns = 1

C5_Witness ==
    /\ pc = "done"
    /\ seeds = <<5>>
    /\ launches = <<5>>
    /\ returned = 1

(***************************************************************************)
(* C6: the steps happen in the stated order: both entries are added before *)
(* the scenario is constructed; scenario, simulation and environment       *)
(* parameters exist before pass_params is built; in run_task the           *)
(* environment is created, then wrapped, then policy and baseline are      *)
(* built on the wrapped environment's spec, then TRPO, and train is called *)
(* last; no run_task body runs before a launch.                            *)
(***************************************************************************)
C6_PipelineOrder ==
    /\ constructed["scenario"] > 0 =>
           /\ AddsDone
           /\ Len(globals.scenario.vehicles) = 2
    /\ constructed["pass_params"] > 0 =>
           /\ constructed["scenario"] > 0
           /\ constructed["sumo_params"] > 0
           /\ constructed["env_params"] > 0
           /\ globals.pass_params[7] = globals.scenario
    /\ Len(taskTrace) <= Len(TaskOrder)
    /\ Steps = SubSeq(TaskOrder, 1, Len(taskTrace))
    /\ pc = "training" => Steps = SubSeq(TaskOrder, 1, 6)
    /\ Done("policy") =>
           /\ locals.env.wrapped
           /\ locals.policy.env_spec = EnvSpec(locals.env)
    /\ Done("baseline") => locals.baseline.env_spec = EnvSpec(locals.env)
    /\ Done("TRPO") =>
           /\ locals.algo.env = locals.env
           /\ locals.algo.policy = locals.policy
           /\ locals.algo.baseline = locals.baseline
    /\ taskRuns <= Len(launches)
    /\ (taskTrace # <<>> \/ trainCalls > 0) => Len(launches) > 0

C6_Witness ==
    /\ pc = "launcher_return"
    /\ Steps = TaskOrder
    /\ locals.policy.env_spec.normalized

(***************************************************************************)
(* C7: each run_task calls train once, configured with n_itr = 1,          *)
(* batch_size 1000 and hidden sizes (32, 32); run_task finishes after a    *)
(* single iteration, and when no library call fails the notebook ends      *)
(* after as many iterations as there are seeds.  The run always ends.      *)
(***************************************************************************)
C7_State ==
    /\ Done("TRPO") =>
           /\ locals.algo.n_itr = 1
           /\ locals.algo.batch_size = 1000
           /\ locals.algo.policy.hidden_sizes = <<32, 32>>
    /\ trainCalls <= taskRuns
    /\ iterations <= trainCalls
    /\ pc = "launcher_return" => itr = 1
    /\ (failures = 0 /\ pc \in {"loop_head", "done"}) =>
           /\ trainCalls = returned
           /\ iterations = returned
    /\ (failures = 0 /\ pc = "done") => iterations = Len(seeds)

C7_SingleIteration ==
    /\ []C7_State
    /\ <>(pc \in {"done", "error"})

C7_Witness ==
    /\ pc = "done"
    /\ failures = 0
    /\ Len(seeds) = 3
    /\ iterations = 3

(***************************************************************************)
(* C8: no failure is caught.  A failed library call ends its run_task at   *)
(* once (train is never called after a failed environment construction),   *)
(* the exception travels unchanged, nothing is retried, and a launch that  *)
(* raises into the loop ends the loop: no remaining seed is launched.      *)
(***************************************************************************)
C8_State ==
    /\ \A i \in 1..Len(taskTrace) :
           taskTrace[i].exc # "none" => i = Len(taskTrace)
    /\ (taskTrace # <<>> /\ taskTrace[1].exc # "none") =>
           /\ pc \notin {"train", "training", "launcher_return"}
           /\ locals = NoLocals
    /\ pc = "task_raised" =>
           /\ taskTrace # <<>>
           /\ exc = taskTrace[Len(taskTrace)].exc
           /\ exc # "none"
    /\ pc = "error" =>
           /\ exc # "none"
           /\ taskTrace # <<>> => exc = taskTrace[Len(taskTrace)].exc
    /\ exc # "none" => pc \in {"task_raised", "error"}
    /\ taskRuns <= Len(launches)
    /\ Len(launches) <= idx

C8_Step ==
    /\ exc # "none" =>
           /\ launches' = launches
           /\ taskRuns' = taskRuns
           /\ trainCalls' = trainCalls
           /\ iterations' = iterations
           /\ locals' = locals
           /\ taskTrace' = taskTrace
    /\ pc = "error" => pc' = "error"
    /\ (taskTrace # <<>> /\ taskTrace[Len(taskTrace)].exc # "none") =>
           /\ trainCalls' = trainCalls
           /\ iterations' = iterations

C9_State ==
    /\ \A n \in ConfigNames : constructed[n] <= 1
    /\ constructed["vehicles"] <= 1
    /\ SetupDone =>
           /\ \A n \in ConfigNames : constructed[n] = 1
           /\ globals.pass_params =
                  <<globals.env_name, globals.sumo_params, globals.vehicles,
                    globals.env_params, globals.net_params,
                    globals.initial_config, globals.scenario>>
           /\ globals.scenario.vehicles = globals.vehicles
    /\ Done("GymEnv") => locals.env.register_params = globals.pass_params

C9_Step ==
    /\ \A n \in ConfigNames :
           constructed[n] > 0 =>
               /\ globals'[n] = globals[n]
               /\ constructed'[n] = constructed[n]
    /\ globals'.vehicles # globals.vehicles => pc \in {"add_human", "add_rl"}
    /\ (constructed["scenario"] > 0 \/ constructed["pass_params"] > 0) =>
           globals'.vehicles = globals.vehicles
    /\ SetupDone => globals' = globals

C9_Frame ==
    /\ []C9_State
    /\ [][C9_Step]_vars

C9_Witness ==
    /\ pc = "done"
    /\ taskRuns >= 2
    /\ trainCalls >= 2
    /\ globals.pass_params[4].horizon = 100
    /\ locals.env.register_params = globals.pass_params

(***************************************************************************)
(* C10: max_path_length of TRPO is the horizon read from the new           *)
(* environment before it is wrapped; the name given to GymEnv is the first *)
(* component of pass_params, "WaveAttenuationPOEnv"; when the environment  *)
(* reports the horizon it was configured with, max_path_length is 100.     *)
(***************************************************************************)
C10_HorizonAndName ==
    /\ Done("GymEnv") =>
           /\ locals.env.name = globals.pass_params[1]
           /\ locals.env.name = globals.env_name
           /\ locals.env.name = "WaveAttenuationPOEnv"
    /\ Done("horizon") => locals.horizon = locals.env.horizon
    /\ Done("normalize") =>
           /\ Done("horizon")
           /\ Pos("horizon") < Pos("normalize")
    /\ Done("TRPO") =>
           /\ locals.algo.max_path_length = locals.horizon
           /\ locals.env.horizon = globals.env_params.horizon =>
                  locals.algo.max_path_length = 100

C10_Witness ==
    /\ Done("TRPO")
    /\ locals.env.horizon = globals.env_params.horizon
    /\ locals.algo.max_path_length = 100

====
